---- MODULE Spec2Model ----
(***************************************************************************)
(* Model of the log-ingestion webhook api/detect.js, in its two versions:  *)
(*   "keyed"  the API-key protected handler with the brute-force counter   *)
(*            (src/unnamed/part_000),                                      *)
(*   "plain"  the handler without authentication (src/api/detect.js).      *)
(* A deployment runs one of the two; `variant` is fixed by Init.           *)
(*                                                                         *)
(* A request runs synchronously up to its next `await` on a collaborator   *)
(* (blob store, table store, webhook); every action below is one such      *)
(* stretch of the handler, ended by the completion of the awaited call,    *)
(* whose outcome ("ok", "error" = returned error object, "throw" =         *)
(* rejected promise) is chosen by the environment.                         *)
(*                                                                         *)
(* Texts are sequences of space-separated words of a fixed vocabulary. The *)
(* regular expressions are unanchored: a pattern of two words matches when *)
(* a word ends with its first half and the next word begins with its       *)
(* second half (EndsWith, StartsWith list the words of the vocabulary      *)
(* that do so without being equal to the half).                            *)
(* Optional values are sequences of length 0 (null/undefined) or 1.        *)
(* Instants are milliseconds; an ISO-8601 string is [iso |-> ms]. A date   *)
(* that new Date reads out of a text that is not ISO-8601 is midnight of a *)
(* civil date, [ymd |-> <<year, month, day>>] (its milliseconds are beyond *)
(* the integers of the model); the process runs in UTC.                    *)
(***************************************************************************)
EXTENDS Integers, Sequences, FiniteSets, TLC

\* ------------------------------------------------------------------ bounds
MaxRequests == 1      \* requests received in one behaviour of Spec
MaxConcRequests == 3  \* requests received in one behaviour of SpecConc
MaxSeqRequests == 4   \* requests received in one behaviour of SpecSeq

\* --------------------------------------------------------- program constants
SecondMs == 1000                      \* part_000:104  "/ 1000"
WindowMs == 5 * 60 * SecondMs         \* part_000:104  "5 * 60 * 1000"
Threshold == 3                        \* part_000:216  "count >= 3"
Epoch == 2 * WindowMs                 \* the instant the model's clock starts at
\* the clock's advances: to the next second (same five minutes), to the next five minutes
ClockSteps == <<SecondMs, WindowMs>>

Procs == {1, 2}                       \* concurrent invocations of the handler
Null == <<>>
Some(v) == <<v>>

\* ------------------------------------------------------------ rule engine
Lower(w) ==
  CASE w = "Failed" -> "failed"
    [] w = "LOGIN"  -> "login"
    [] w = "OR"     -> "or"
    [] w = "SELECT" -> "select"
    [] w = "Curl"   -> "curl"
    [] w = "status=FAILED" -> "status=failed"
    [] OTHER        -> w

HasWord(text, ws) == \E i \in 1..Len(text) : Lower(text[i]) \in ws

\* the word ends with `a`, ignoring case: "status=FAILED" ends with "failed" (and the
\* "=" before it is a word boundary, so a pattern `\ba` ends there as well)
EndsWith(w, a) == Lower(w) = a \/ (a = "failed" /\ Lower(w) = "status=failed")

\* the word begins with `b`, ignoring case
StartsWith(w, b) == Lower(w) = b

\* RegExp /a b/i .test(text): unanchored, so `a` may be the end of a longer word and `b`
\* the beginning of one
HasPair(text, a, b) ==
  \E i \in 1..(Len(text) - 1) : EndsWith(text[i], a) /\ StartsWith(text[i + 1], b)

HasBefore(text, a, b) ==
  \E i \in 1..Len(text) : \E j \in (i + 1)..Len(text) :
     Lower(text[i]) = a /\ Lower(text[j]) = b

\* /failed login|authentication failed|invalid credentials|login failed|status=FAILED/i
FAILED_LOGIN_RE(text) ==
  \/ HasPair(text, "failed", "login")
  \/ HasPair(text, "authentication", "failed")
  \/ HasPair(text, "invalid", "credentials")
  \/ HasPair(text, "login", "failed")
  \/ HasWord(text, {"status=FAILED", "status=failed"})

\* /user=admin|username=admin|user:admin/i
ADMIN_RE(text) == HasWord(text, {"user=admin", "username=admin", "user:admin"})

\* /(\bunion\b.*\bselect\b)|(\bor\s+1\s*=\s*1\b)|(\binject\b)|(\bselect\s+\*\b)|(\bunion select\b)/i
\* "\*\b" needs a word character right after the star: "select * from" does not match.
SQLI_RE(text) ==
  \/ HasBefore(text, "union", "select")
  \/ HasPair(text, "or", "1=1")
  \/ HasWord(text, {"inject"})
  \/ HasPair(text, "select", "*from")

\* /(curl|sqlmap|nikto|fuzzer|masscan|nmap|python-requests)/i
SUSPICIOUS_UA_RE(text) ==
  HasWord(text, {"curl", "sqlmap", "nikto", "fuzzer", "masscan", "nmap", "python-requests"})

\* IP_RE = /\b(\d{1,3}\.){3}\d{1,3}\b/: the words of the vocabulary it matches, every dotted quad
IpWords == {"10.0.0.1", "10.0.0.2", "192.0.2.9", "198.51.100.1", "203.0.113.7"}

detectRules(text) ==
  (IF FAILED_LOGIN_RE(text) THEN <<[rule |-> "failed-login", severity |-> "medium"]>> ELSE <<>>)
  \o (IF ADMIN_RE(text) THEN <<[rule |-> "admin-access", severity |-> "high"]>> ELSE <<>>)
  \o (IF SQLI_RE(text) THEN <<[rule |-> "sql-injection", severity |-> "critical"]>> ELSE <<>>)
  \o (IF SUSPICIOUS_UA_RE(text) THEN <<[rule |-> "suspicious-user-agent", severity |-> "medium"]>> ELSE <<>>)

\* text.match(IP_RE): the first dotted quad in scan order, or null
extractIp(text) ==
  IF \E i \in 1..Len(text) : text[i] \in IpWords
  THEN Some(text[CHOOSE i \in 1..Len(text) :
                   /\ text[i] \in IpWords
                   /\ \A j \in 1..(i - 1) : text[j] \notin IpWords])
  ELSE Null

\* --- src/api/detect.js
\* /failed login|authentication failed|invalid credentials|login failed/i
FAILED_LOGIN_RE_Plain(text) ==
  \/ HasPair(text, "failed", "login")
  \/ HasPair(text, "authentication", "failed")
  \/ HasPair(text, "invalid", "credentials")
  \/ HasPair(text, "login", "failed")

\* /(\%27)|(')|(\-\-)|(\%23)|(#)|(\%3D)|(\bOR\b\s+\b1\b=\b1\b)/i
SQLI_RE_Plain(text) ==
  \/ HasWord(text, {"%27", "'", "--", "%23", "#", "%3D"})
  \/ HasPair(text, "or", "1=1")

detectRulesPlain(text) ==
  (IF FAILED_LOGIN_RE_Plain(text) THEN <<"FAILED_LOGIN">> ELSE <<>>)
  \o (IF SQLI_RE_Plain(text) THEN <<"SQL_INJECTION_PATTERN">> ELSE <<>>)
  \o (IF SUSPICIOUS_UA_RE(text) THEN <<"SUSPICIOUS_USER_AGENT">> ELSE <<>>)

\* ------------------------------------------------------------- JS values
Undefined == [t |-> "undefined"]
Str(text) == [t |-> "string", s |-> text]
Num(w) == [t |-> "number", s |-> <<w>>]

\* String(v)
String(v) == IF v.t = "undefined" THEN <<"undefined">> ELSE v.s

\* truthiness of an optional field (absent, the number 0 and the empty string are falsy)
Truthy(v) == (v.t = "number" /\ v.s # <<"0">>) \/ (v.t = "string" /\ Len(v.s) > 0)

\* the text of a client timestamp: an ISO-8601 string is one word, any other string
\* is its words
TimestampText(ts) == IF "iso" \in DOMAIN ts THEN <<ToString(ts.iso)>> ELSE ts.text

\* the fields JSON.stringify writes, in the order of the payload's keys
JSONfields(body) ==
  (IF body.message.t = "undefined" THEN <<>> ELSE << <<"message", ":">> \o body.message.s >>)
  \o (IF body.log.t = "undefined" THEN <<>> ELSE << <<"log", ":">> \o body.log.s >>)
  \o (IF body.timestamp = Null THEN <<>>
      ELSE << <<"timestamp", ":">> \o TimestampText(body.timestamp[1]) >>)

RECURSIVE JoinFields(_)
JoinFields(fields) ==
  IF fields = <<>> THEN <<>>
  ELSE IF Len(fields) = 1 THEN fields[1]
  ELSE fields[1] \o <<",">> \o JoinFields(Tail(fields))

\* JSON.stringify(payload) of an object body: braces around the fields, commas between
JSONstringify(body) == <<"{">> \o JoinFields(JSONfields(body)) \o <<"}">>

\* payload?.message || (typeof payload === "string" ? payload : JSON.stringify(payload))
MessageOf(body) ==
  CASE body.kind = "undefined" -> Undefined
    [] body.kind = "string"    -> Str(body.text)
    [] OTHER -> IF Truthy(body.message) THEN body.message ELSE Str(JSONstringify(body))

\* new Date().toISOString()
NowISO(t) == [iso |-> t]

\* payload?.timestamp || new Date().toISOString()
TimestampOf(body, t) ==
  IF body.kind = "object" /\ body.timestamp # Null /\ TimestampText(body.timestamp[1]) # <<>>
  THEN body.timestamp[1]
  ELSE NowISO(t)

\* new Date(string) on a text that is not ISO-8601: the engine's fallback date parser.
\* Its tokenizer reads a run of digits as a number, each of ":", "-", "+", "." and ")"
\* as a symbol, a run of characters from "A" upwards (letters, "_", "{", "}") as a word,
\* and any other character ("#", "'", "%", "*", ",", "=") as unknown. The words of the
\* vocabulary are tokenized here one by one; a word not listed is letters only. No word
\* of the vocabulary begins with a month name or is a time-zone name, AM, PM, T or Z,
\* none has a numeral right before ":" or a parenthesis, and no number has four digits
\* (an ISO-8601 year).
Tok(k, n) == [k |-> k, n |-> n]

\* the tokens of the dotted quad a.b.c.d
QuadTokens(a, b, c, d) ==
  <<Tok("num", a), Tok("dot", 0), Tok("num", b), Tok("dot", 0),
    Tok("num", c), Tok("dot", 0), Tok("num", d)>>

DateTokens(w) ==
  CASE w = "0"             -> <<Tok("num", 0)>>
    [] w = "12345"         -> <<Tok("num", 12345)>>
    [] w = "1=1"           -> <<Tok("num", 1), Tok("other", 0), Tok("num", 1)>>
    [] w = "id=1"          -> <<Tok("word", 0), Tok("other", 0), Tok("num", 1)>>
    [] w = "10.0.0.1"      -> QuadTokens(10, 0, 0, 1)
    [] w = "10.0.0.2"      -> QuadTokens(10, 0, 0, 2)
    [] w = "192.0.2.9"     -> QuadTokens(192, 0, 2, 9)
    [] w = "198.51.100.1"  -> QuadTokens(198, 51, 100, 1)
    [] w = "203.0.113.7"   -> QuadTokens(203, 0, 113, 7)
    [] w \in {"*", "#", "'", ",", ":"}
                           -> <<Tok("other", 0)>>
    [] w = "--"            -> <<Tok("minus", 0), Tok("minus", 0)>>
    [] w = "%27"           -> <<Tok("other", 0), Tok("num", 27)>>
    [] w = "%23"           -> <<Tok("other", 0), Tok("num", 23)>>
    [] w = "%3D"           -> <<Tok("other", 0), Tok("num", 3), Tok("word", 0)>>
    [] w = "*from"         -> <<Tok("other", 0), Tok("word", 0)>>
    [] w \in {"user=admin", "username=admin", "user:admin", "status=FAILED", "status=failed"}
                           -> <<Tok("word", 0), Tok("other", 0), Tok("word", 0)>>
    [] w = "python-requests"
                           -> <<Tok("word", 0), Tok("minus", 0), Tok("word", 0)>>
    [] w = "not-a-date"    -> <<Tok("word", 0), Tok("minus", 0), Tok("word", 0),
                                Tok("minus", 0), Tok("word", 0)>>
    [] OTHER               -> <<Tok("word", 0)>>

\* the tokens of a text: those of its words, white space between them
RECURSIVE TextTokens(_)
TextTokens(text) ==
  IF text = <<>> THEN <<>>
  ELSE IF Len(text) = 1 THEN DateTokens(text[1])
  ELSE DateTokens(text[1]) \o <<Tok("ws", 0)>> \o TextTokens(Tail(text))

\* The parser's loop from token i on. A number is a date component (a "." or "-" right
\* after it is skipped), a fourth component fails; a word is ignored before the first
\* number unless a number follows it immediately, and fails after it; a sign fails once
\* a number has been read; anything else is ignored. Result: the components, or Null.
RECURSIVE LegacyComponents(_, _, _, _)
LegacyComponents(toks, i, hasReadNumber, comps) ==
  IF i > Len(toks) THEN Some(comps)
  ELSE LET IsTok(j, k) == j <= Len(toks) /\ toks[j].k = k
           afterDot == IF IsTok(i + 1, "dot") THEN i + 2 ELSE i + 1
           afterDash == IF IsTok(afterDot, "minus") THEN afterDot + 1 ELSE afterDot
       IN CASE toks[i].k = "num" ->
                 IF Len(comps) = 3 THEN Null
                 ELSE LegacyComponents(toks, afterDash, TRUE, Append(comps, toks[i].n))
            [] toks[i].k = "word" ->
                 IF hasReadNumber \/ IsTok(i + 1, "num") THEN Null
                 ELSE LegacyComponents(toks, i + 1, hasReadNumber, comps)
            [] toks[i].k \in {"plus", "minus"} ->
                 IF hasReadNumber THEN Null
                 ELSE LegacyComponents(toks, i + 1, hasReadNumber, comps)
            [] OTHER -> LegacyComponents(toks, i + 1, hasReadNumber, comps)

IsMonth(x) == 1 <= x /\ x <= 12
IsDay(x) == 1 <= x /\ x <= 31

DaysInMonth(y, m) ==
  IF m = 2 THEN (IF y % 4 = 0 /\ (y % 100 # 0 \/ y % 400 = 0) THEN 29 ELSE 28)
  ELSE IF m \in {4, 6, 9, 11} THEN 30 ELSE 31

\* The date of the components: missing ones are 1; year-month-day when the first is
\* no day of a month, month-day-year otherwise; years 0..49 are 20xx, 50..99 are 19xx;
\* a day past the end of its month runs into the next month; the instant must lie
\* within 8.64e15 ms of the epoch (13 September 275760). Result: the date, or Null.
DayOf(comps) ==
  IF comps = <<>> THEN Null
  ELSE LET c == [i \in 1..3 |-> IF i <= Len(comps) THEN comps[i] ELSE 1]
           ymdOrder == ~IsDay(c[1])
           y0 == IF ymdOrder THEN c[1] ELSE c[3]
           m == IF ymdOrder THEN c[2] ELSE c[1]
           d == IF ymdOrder THEN c[3] ELSE c[2]
           y == IF y0 <= 49 THEN y0 + 2000 ELSE IF y0 <= 99 THEN y0 + 1900 ELSE y0
           inRange == y < 275760 \/ (y = 275760 /\ (m < 9 \/ (m = 9 /\ d <= 13)))
       IN IF ~IsMonth(m) \/ ~IsDay(d) \/ ~inRange THEN Null
          ELSE IF d > DaysInMonth(y, m) THEN Some(<<y, m + 1, d - DaysInMonth(y, m)>>)
          ELSE Some(<<y, m, d>>)

\* new Date(text) for a text that is not ISO-8601: the date, or Null for Invalid Date
DateParse(text) ==
  LET comps == LegacyComponents(TextTokens(text), 1, FALSE, <<>>)
  IN IF comps = Null THEN Null ELSE DayOf(comps[1])

\* new Date(timestamp) is a valid date
ValidDate(ts) == "iso" \in DOMAIN ts \/ DateParse(ts.text) # Null

\* new Date(timestamp).toISOString(), defined for valid dates (throws RangeError otherwise)
ToISOString(ts) ==
  IF "iso" \in DOMAIN ts THEN [iso |-> ts.iso] ELSE [ymd |-> DateParse(ts.text)[1]]


\* ------------------------------------------------------------------ state
VARIABLES
  variant,    \* "keyed" (src/unnamed/part_000) or "plain" (src/api/detect.js)
  env,        \* process.env: API_KEY (optional), ALERT_WEBHOOK set or not
  now,        \* the clock, in ms
  ticks,      \* clock advances taken
  served,     \* requests received so far
  proc,       \* per invocation: position in the handler and its locals
  incidents,  \* rows of table "incidents"
  counters,   \* rows of table "counters", keyed by counter_id (last_seen is left out)
  blobs,      \* object paths in the evidence bucket
  alerts,     \* webhook posts delivered
  calls,      \* history: the updateCounter calls started (request, address, instant, key)
  faults      \* history: the requests one of whose table-store calls failed

vars == <<variant, env, now, ticks, served, proc, incidents, counters, blobs, alerts,
          calls, faults>>

Outcomes == {"ok", "error", "throw"}

IdleProc ==
  [pc |-> "idle", no |-> 0, req |-> Null, findings |-> <<>>, realIp |-> "",
   timestamp |-> Null, evidencePath |-> Null, incident |-> Null,
   counterId |-> Null, calledAt |-> Null, newCount |-> Null, count |-> Null,
   bfIncident |-> Null, bruteForce |-> FALSE,
   trace |-> <<>>, resp |-> <<>>, escaped |-> FALSE]

\* String(message) of the request an invocation is handling
Msg(st) == String(MessageOf(st.req[1].body))

\* a collaborator call is issued / completes
Issue(st, call) == [st EXCEPT !.trace = Append(@, [call |-> call, out |-> "pending"])]
Complete(st, out) == [st EXCEPT !.trace[Len(st.trace)].out = out]

\* res.status(status).json(body)
Respond(st, status, body) ==
  [st EXCEPT !.pc = "done", !.resp = Append(@, [status |-> status, body |-> body])]

\* faulty variant: the exception leaves the handler
CatchRethrows(st) == [st EXCEPT !.pc = "done", !.escaped = TRUE]

\* catch (err) { return res.status(500).json({ ok: false, error: "internal_error", ... }) }
Catch(st) == Respond(st, 500, [ok |-> FALSE, error |-> "internal_error"])

\* faulty variant: the x-source header is left out of the chain
RealIpSkipsSource(ipFromMessage, h) ==
  IF ipFromMessage # Null THEN ipFromMessage[1]
  ELSE IF h.xff # Null /\ Head(h.xff[1]) # "" THEN Head(h.xff[1])
  ELSE IF h.remote # Null /\ h.remote[1] # "" THEN h.remote[1]
  ELSE "unknown"

\* req.headers["x-forwarded-for"]?.split(",")[0] || req.headers["x-source"]
\*   || req.socket?.remoteAddress || "unknown"
RealIp(ipFromMessage, h) ==
  IF ipFromMessage # Null THEN ipFromMessage[1]
  ELSE IF h.xff # Null /\ Head(h.xff[1]) # "" THEN Head(h.xff[1])
  ELSE IF h.xsource # Null /\ h.xsource[1] # "" THEN h.xsource[1]
  ELSE IF h.remote # Null /\ h.remote[1] # "" THEN h.remote[1]
  ELSE "unknown"

\* Math.floor((now - 5 * 60 * 1000) / 1000)
WindowStart(t) == (t - WindowMs) \div SecondMs

\* `${ip}-${windowStart}`
CounterId(ip, t) == <<ip, WindowStart(t)>>

\* ------------------------------------------- keyed handler, stretch by stretch
\* if (critical) await sendAlertWebhook("Critical finding detected", ...); respond 201
Respond201(st) ==
  Respond(st, 201, [ok |-> TRUE, incident |-> st.incident[1], bruteForce |-> st.bruteForce])

\* faulty variant: the critical notification is skipped once the brute-force one is sent
CriticalStepUnlessBruteForce(st) ==
  IF ~st.bruteForce /\ \E i \in 1..Len(st.findings) : st.findings[i].severity = "critical"
  THEN IF env.webhook
       THEN [Issue(st, "alert-critical") EXCEPT !.pc = "notifyCrit"]
       ELSE Respond201(Complete(Issue(st, "alert-critical"), "unconfigured"))
  ELSE Respond201(st)

CriticalStep(st) ==
  IF \E i \in 1..Len(st.findings) : st.findings[i].severity = "critical"
  THEN IF env.webhook
       THEN [Issue(st, "alert-critical") EXCEPT !.pc = "notifyCrit"]
       ELSE Respond201(Complete(Issue(st, "alert-critical"), "unconfigured"))
  ELSE Respond201(st)

\* const count = await updateCounter(realIp) has returned `count`
AfterCounter(st, count, t) ==
  LET st1 == [st EXCEPT !.count = count] IN
  IF count # Null /\ count[1] >= Threshold
  THEN [Issue(st1, "insert-bf") EXCEPT
          !.pc = "bfInsert",
          !.bfIncident = Some([incident_id |-> <<"bf", st.no>>,
                               created_at |-> NowISO(t),
                               log_source |-> st.realIp,
                               findings |-> <<"brute-force">>,
                               evidence_path |-> Null,
                               attempts |-> count])]
  ELSE CriticalStep(st1)

\* updateCounter(ip) up to its select
updateCounter(st, t) ==
  IF st.realIp = "" THEN AfterCounter(st, Null, t)
  ELSE [Issue(st, "select-counter") EXCEPT
          !.pc = "select", !.calledAt = Some(t), !.counterId = Some(CounterId(st.realIp, t))]

\* await saveIncident(incident) has returned
AfterIncident(st, t) ==
  IF FAILED_LOGIN_RE(Msg(st)) THEN updateCounter(st, t) ELSE CriticalStep(st)

\* faulty variant: without evidence no incident is recorded
AfterEvidenceRequired(st, evidencePath) ==
  IF ~ValidDate(st.timestamp[1]) THEN Catch([st EXCEPT !.evidencePath = evidencePath])
  ELSE LET st1 == [st EXCEPT
                     !.evidencePath = evidencePath,
                     !.incident = Some([incident_id |-> <<"inc", st.no>>,
                                        created_at |-> ToISOString(st.timestamp[1]),
                                        log_source |-> st.realIp,
                                        findings |-> [i \in 1..Len(st.findings) |->
                                                        st.findings[i].rule],
                                        evidence_path |-> evidencePath,
                                        attempts |-> Null])]
       IN IF evidencePath = Null THEN CriticalStep(st1)
          ELSE [Issue(st1, "insert-incident") EXCEPT !.pc = "insert"]

\* storeEvidence has returned evidencePath: build the incident and issue its insert
AfterEvidence(st, evidencePath) ==
  IF ~ValidDate(st.timestamp[1]) THEN Catch([st EXCEPT !.evidencePath = evidencePath])
  ELSE [Issue(st, "insert-incident") EXCEPT
          !.pc = "insert",
          !.evidencePath = evidencePath,
          !.incident = Some([incident_id |-> <<"inc", st.no>>,
                             created_at |-> ToISOString(st.timestamp[1]),
                             log_source |-> st.realIp,
                             findings |-> [i \in 1..Len(st.findings) |-> st.findings[i].rule],
                             evidence_path |-> evidencePath,
                             attempts |-> Null])]

\* faulty variant: a request without the header passes the key check
UnauthorizedOnlyIfWrong(r) ==
  env.apiKey \in {Null, Some("")} \/ (r.key # Null /\ r.key # env.apiKey)

\* !API_KEY || req.headers["x-api-key"] !== API_KEY
Unauthorized(r) == env.apiKey \in {Null, Some("")} \/ r.key # env.apiKey

\* faulty variant: a message that matches no rule is recorded as well
handlerRecordsAll(st, r, t) ==
  IF r.method # "POST"
  THEN Respond(st, 405, [ok |-> FALSE, error |-> "Method not allowed"])
  ELSE IF Unauthorized(r)
  THEN Respond(st, 401, [ok |-> FALSE, error |-> "Unauthorized"])
  ELSE LET message == MessageOf(r.body)
           findings == detectRules(String(message))
       IN [Issue(st, "upload") EXCEPT
             !.pc = "upload",
             !.timestamp = Some(TimestampOf(r.body, t)),
             !.findings = findings,
             !.realIp = RealIp(extractIp(String(message)), r.headers)]

\* handler(req, res) from its entry to its first await
handler(st, r, t) ==
  IF r.method # "POST"
  THEN Respond(st, 405, [ok |-> FALSE, error |-> "Method not allowed"])
  ELSE IF Unauthorized(r)
  THEN Respond(st, 401, [ok |-> FALSE, error |-> "Unauthorized"])
  ELSE LET message == MessageOf(r.body)
           findings == detectRules(String(message))
       IN IF findings = <<>>
          THEN Respond(st, 200, [ok |-> TRUE, findings |-> <<>>])
          ELSE [Issue(st, "upload") EXCEPT
                  !.pc = "upload",
                  !.timestamp = Some(TimestampOf(r.body, t)),
                  !.findings = findings,
                  !.realIp = RealIp(extractIp(String(message)), r.headers)]


\* faulty variant: a failed upload ends the request before the incident is recorded
storeEvidenceGivesUp(st, out, url) ==
  IF out # "ok"
  THEN Respond(Complete(st, out), 201, [ok |-> TRUE, incident |-> Null, bruteForce |-> FALSE])
  ELSE AfterEvidence(Complete(st, out), IF url = "url" THEN Some(<<"public", st.no>>) ELSE Null)

\* faulty variant: storeEvidence without its try/catch
storeEvidenceRethrows(st, out, url) ==
  IF out = "throw" THEN Catch(Complete(st, out))
  ELSE AfterEvidence(Complete(st, out),
                     IF out = "ok" /\ url = "url" THEN Some(<<"public", st.no>>) ELSE Null)

\* storeEvidence: the upload has completed with `out`, getPublicUrl answers `url`
storeEvidence(st, out, url) ==
  AfterEvidence(Complete(st, out),
                IF out = "ok" /\ url = "url" THEN Some(<<"public", st.no>>) ELSE Null)

\* faulty variant: saveIncident logs the error and returns
saveIncidentSwallows(st, out, t) == AfterIncident(Complete(st, out), t)

\* faulty variant: saveIncident does not look at the error the insert returns
saveIncidentIgnoresError(st, out, t) ==
  IF out = "throw" THEN Catch(Complete(st, out)) ELSE AfterIncident(Complete(st, out), t)

\* saveIncident(incident): the insert has completed with `out`; an error is thrown on
saveIncident(st, out, t) ==
  IF out = "ok" THEN AfterIncident(Complete(st, out), t) ELSE Catch(Complete(st, out))

\* updateCounter: the select has completed with `out`, `existing` is the row it found
updateCounterSelected(st, out, existing, t) ==
  IF out = "throw" THEN AfterCounter(Complete(st, out), Null, t)
  ELSE IF out = "error" \/ existing = Null
  THEN [Issue(Complete(st, out), "insert-counter") EXCEPT !.pc = "ctrInsert"]
  ELSE [Issue(Complete(st, out), "update-counter") EXCEPT
          !.pc = "ctrUpdate", !.newCount = Some(existing[1].count + 1)]

\* updateCounter: the insert of a new counter row has completed; return 1
updateCounterInserted(st, out, t) ==
  AfterCounter(Complete(st, out), IF out = "throw" THEN Null ELSE Some(1), t)

\* faulty variant: the value returned is one more than the count written
updateCounterUpdatedOneMore(st, out, t) ==
  AfterCounter(Complete(st, out), IF out = "throw" THEN Null ELSE Some(st.newCount[1] + 1), t)

\* updateCounter: the update has completed; return newCount
updateCounterUpdated(st, out, t) ==
  AfterCounter(Complete(st, out), IF out = "throw" THEN Null ELSE st.newCount, t)

\* await saveIncident(bfIncident); bruteForceTriggered = true; await sendAlertWebhook(...)
saveBfIncident(st, out) ==
  IF out # "ok" THEN Catch(Complete(st, out))
  ELSE LET st1 == [Complete(st, out) EXCEPT !.bruteForce = TRUE] IN
       IF env.webhook
       THEN [Issue(st1, "alert-bf") EXCEPT !.pc = "notifyBf"]
       ELSE CriticalStep(Complete(Issue(st1, "alert-bf"), "unconfigured"))

\* sendAlertWebhook: fetch has completed; a rejection is caught and logged
sendAlertWebhook(st, out) ==
  IF st.pc = "notifyBf" THEN CriticalStep(Complete(st, out)) ELSE Respond201(Complete(st, out))

\* ------------------------------------------- plain handler (src/api/detect.js)
\* await saveIncident(incident); await sendAlert(incident); respond 201
saveIncidentPlain(st, out) ==
  Respond(Complete(st, out), 201, [ok |-> TRUE, incident |-> st.incident[1]])

\* storeEvidence has returned: build the incident and issue its insert
AfterEvidencePlain(st, evidencePath, t) ==
  [Issue(st, "insert-incident") EXCEPT
     !.pc = "insert",
     !.evidencePath = evidencePath,
     !.incident = Some([incident_id |-> <<"inc", st.no>>,
                        created_at |-> NowISO(t),
                        log_source |-> st.realIp,
                        findings |-> st.findings,
                        evidence_path |-> evidencePath,
                        attempts |-> Null])]

\* storeEvidence: the upload has completed
storeEvidencePlain(st, out, t) ==
  IF out = "ok" THEN [Issue(Complete(st, out), "sign-url") EXCEPT !.pc = "signUrl"]
  ELSE AfterEvidencePlain(Complete(st, out), Null, t)

\* storeEvidence: createSignedUrl has completed; data?.signedUrl || null
storeEvidenceSigned(st, out, t) ==
  AfterEvidencePlain(Complete(st, out),
                     IF out = "ok" THEN Some(<<"signed", st.no>>) ELSE Null, t)

\* catch (err) { return res.status(500).json({ error: "internal_error", ... }) }
CatchPlain(st) == Respond(st, 500, [error |-> "internal_error"])

\* handler(req, res) from its entry to its first await
handlerPlain(st, r, t) ==
  IF r.method # "POST"
  THEN Respond(st, 405, [error |-> "Only POST allowed"])
  ELSE LET message == MessageOf(r.body)
           findings == detectRulesPlain(String(message))
       IN IF message.t # "string" THEN CatchPlain(st)   \* extractIp: text.match is not a function
          ELSE IF findings = <<>>
          THEN Respond(st, 200, [ok |-> TRUE, findings |-> <<>>])
          ELSE [Issue(st, "upload") EXCEPT
                  !.pc = "upload",
                  !.findings = findings,
                  !.realIp = IF r.headers.xsource # Null /\ r.headers.xsource[1] # ""
                             THEN r.headers.xsource[1] ELSE "vercel"]


\* ---------------------------------------------------------------- actions
\* a request arrives at invocation p and runs to its first await
Receive(p, r) ==
  /\ proc[p].pc \in {"idle", "done"}
  /\ served' = served + 1
  /\ LET st == [IdleProc EXCEPT !.no = served + 1, !.req = Some(r)] IN
     proc' = [proc EXCEPT ![p] = IF variant = "keyed" THEN handler(st, r, now)
                                 ELSE handlerPlain(st, r, now)]
  /\ UNCHANGED <<variant, env, now, ticks, incidents, counters, blobs, alerts>>
  /\ UNCHANGED <<calls, faults>>

\* supabase.storage.from(EVIDENCE_BUCKET).upload(...) completes
UploadDone(p, out, url) ==
  /\ proc[p].pc = "upload"
  /\ out # "ok" => url = "none"
  /\ variant = "plain" => url = "none"
  /\ blobs' = IF out = "ok" THEN blobs \cup {<<"inc", proc[p].no>>} ELSE blobs
  /\ proc' = [proc EXCEPT ![p] = IF variant = "keyed" THEN storeEvidence(@, out, url)
                                 ELSE storeEvidencePlain(@, out, now)]
  /\ UNCHANGED <<variant, env, now, ticks, served, incidents, counters, alerts>>
  /\ UNCHANGED <<calls, faults>>

\* createSignedUrl(filename, 60 * 60 * 24) completes (plain handler only)
SignUrlDone(p, out) ==
  /\ proc[p].pc = "signUrl"
  /\ proc' = [proc EXCEPT ![p] = storeEvidenceSigned(@, out, now)]
  /\ UNCHANGED <<variant, env, now, ticks, served, incidents, counters, blobs, alerts>>
  /\ UNCHANGED <<calls, faults>>

\* supabase.from("incidents").insert([incident]) completes
InsertDone(p, out) ==
  /\ proc[p].pc = "insert"
  /\ incidents' = IF out = "ok" THEN incidents \cup {proc[p].incident[1]} ELSE incidents
  /\ proc' = [proc EXCEPT ![p] = IF variant = "keyed" THEN saveIncident(@, out, now)
                                 ELSE saveIncidentPlain(@, out)]
  /\ UNCHANGED <<variant, env, now, ticks, served, counters, blobs, alerts>>
  /\ calls' = IF proc'[p].pc = "select"
              THEN calls \cup {[no |-> proc[p].no, ip |-> proc[p].realIp, at |-> now,
                                key |-> proc'[p].counterId[1]]}
              ELSE calls
  /\ faults' = IF out = "ok" THEN faults ELSE faults \cup {proc[p].no}

\* the row of table "counters" with this counter_id, if any
CounterRow(id) ==
  IF \E c \in counters : c.counter_id = id
  THEN Some(CHOOSE c \in counters : c.counter_id = id)
  ELSE Null

\* supabase.from("counters").select("*").eq("counter_id", counterId).maybeSingle() completes
SelectDone(p, out) ==
  /\ proc[p].pc = "select"
  /\ proc' = [proc EXCEPT ![p] =
                updateCounterSelected(@, out, CounterRow(proc[p].counterId[1]), now)]
  /\ UNCHANGED <<variant, env, now, ticks, served, incidents, counters, blobs, alerts>>
  /\ faults' = IF out = "ok" THEN faults ELSE faults \cup {proc[p].no}
  /\ UNCHANGED calls

\* supabase.from("counters").insert([{counter_id, ip, window_start, count: 1, last_seen}])
\* completes; counter_id is the key of the table: a second row with it is refused
CtrInsertDone(p, out) ==
  /\ proc[p].pc = "ctrInsert"
  /\ out = "ok" => CounterRow(proc[p].counterId[1]) = Null
  /\ counters' = IF out = "ok"
                 THEN counters \cup {[counter_id |-> proc[p].counterId[1],
                                      ip |-> proc[p].realIp,
                                      window_start |-> proc[p].counterId[1][2],
                                      count |-> 1]}
                 ELSE counters
  /\ proc' = [proc EXCEPT ![p] = updateCounterInserted(@, out, now)]
  /\ UNCHANGED <<variant, env, now, ticks, served, incidents, blobs, alerts>>
  /\ faults' = IF out = "ok" THEN faults ELSE faults \cup {proc[p].no}
  /\ UNCHANGED calls

\* faulty variant: the store adds one to the count it holds; newCount is still returned
CtrUpdateDoneInPlace(p, out) ==
  /\ proc[p].pc = "ctrUpdate"
  /\ counters' = IF out = "ok"
                 THEN {IF c.counter_id = proc[p].counterId[1]
                       THEN [c EXCEPT !.count = @ + 1]
                       ELSE c : c \in counters}
                 ELSE counters
  /\ proc' = [proc EXCEPT ![p] = updateCounterUpdated(@, out, now)]
  /\ UNCHANGED <<variant, env, now, ticks, served, incidents, blobs, alerts>>
  /\ faults' = IF out = "ok" THEN faults ELSE faults \cup {proc[p].no}
  /\ UNCHANGED calls

\* supabase.from("counters").update({count: newCount, last_seen}).eq("counter_id", ...) completes
CtrUpdateDone(p, out) ==
  /\ proc[p].pc = "ctrUpdate"
  /\ counters' = IF out = "ok"
                 THEN {IF c.counter_id = proc[p].counterId[1]
                       THEN [c EXCEPT !.count = proc[p].newCount[1]]
                       ELSE c : c \in counters}
                 ELSE counters
  /\ proc' = [proc EXCEPT ![p] = updateCounterUpdated(@, out, now)]
  /\ UNCHANGED <<variant, env, now, ticks, served, incidents, blobs, alerts>>
  /\ faults' = IF out = "ok" THEN faults ELSE faults \cup {proc[p].no}
  /\ UNCHANGED calls

\* supabase.from("incidents").insert([bfIncident]) completes
BfInsertDone(p, out) ==
  /\ proc[p].pc = "bfInsert"
  /\ incidents' = IF out = "ok" THEN incidents \cup {proc[p].bfIncident[1]} ELSE incidents
  /\ proc' = [proc EXCEPT ![p] = saveBfIncident(@, out)]
  /\ UNCHANGED <<variant, env, now, ticks, served, counters, blobs, alerts>>
  /\ faults' = IF out = "ok" THEN faults ELSE faults \cup {proc[p].no}
  /\ UNCHANGED calls

\* fetch(ALERT_WEBHOOK, ...) completes
NotifyDone(p, out) ==
  /\ proc[p].pc \in {"notifyBf", "notifyCrit"}
  /\ alerts' = IF out = "ok"
               THEN alerts \cup {<<proc[p].no, proc[p].trace[Len(proc[p].trace)].call>>}
               ELSE alerts
  /\ proc' = [proc EXCEPT ![p] = sendAlertWebhook(@, out)]
  /\ UNCHANGED <<variant, env, now, ticks, served, incidents, counters, blobs>>
  /\ UNCHANGED <<calls, faults>>

\* the clock advances
Tick ==
  /\ ticks < Len(ClockSteps)
  /\ ticks' = ticks + 1
  /\ now' = now + ClockSteps[ticks + 1]
  /\ UNCHANGED <<variant, env, served, proc, incidents, counters, blobs, alerts>>
  /\ UNCHANGED <<calls, faults>>

\* ------------------------------------------------------------------ inputs
ClientTime == Epoch - WindowMs

ObjectBody(m, l, ts) ==
  [kind |-> "object", text |-> <<>>, message |-> m, log |-> l, timestamp |-> ts]

FailedLoginBody == ObjectBody(Str(<<"Failed", "LOGIN", "from", "10.0.0.1">>), Undefined, Null)
AdminBody == ObjectBody(Str(<<"login", "failed", "for", "user=admin">>), Undefined, Null)

Bodies ==
  { [kind |-> "undefined", text |-> <<>>, message |-> Undefined, log |-> Undefined,
     timestamp |-> Null],
    [kind |-> "string", text |-> <<"authentication", "failed">>, message |-> Undefined,
     log |-> Undefined, timestamp |-> Null],
    ObjectBody(Num("12345"), Undefined, Null),
    ObjectBody(Undefined, Str(<<"invalid", "credentials">>), Null),
    ObjectBody(Str(<<"hello", "world">>), Undefined, Null),
    ObjectBody(Str(<<"SELECT", "*", "FROM", "users", "WHERE", "1=1">>), Undefined, Null),
    ObjectBody(Str(<<"id=1", "OR", "1=1">>), Undefined, Null),
    ObjectBody(Str(<<"Curl", "probe", "10.0.0.2", "10.0.0.1">>), Undefined, Null),
    FailedLoginBody,
    AdminBody,
    ObjectBody(Str(<<"status=FAILED", "inject", "10.0.0.1">>), Undefined, Some([iso |-> ClientTime])),
    ObjectBody(Str(<<"login", "failed">>), Undefined, Some([text |-> <<"not-a-date">>])),
    ObjectBody(Num("0"), Str(<<"invalid", "credentials">>), Null),
    ObjectBody(Undefined, Str(<<"hello", "world">>), Some([text |-> <<"status=FAILED", "LOGIN">>])),
    ObjectBody(Undefined, Str(<<"status=FAILED">>), Some([text |-> <<"0">>])) }

NoHeaders == [xff |-> Null, xsource |-> Null, remote |-> Null]

HeaderCases ==
  { NoHeaders,
    [xff |-> Null, xsource |-> Null, remote |-> Some("192.0.2.9")],
    [xff |-> Null, xsource |-> Some("gateway"), remote |-> Some("192.0.2.9")],
    [xff |-> Some(<<"203.0.113.7", "198.51.100.1">>), xsource |-> Some("gateway"),
     remote |-> Some("192.0.2.9")],
    [xff |-> Null, xsource |-> Some(""), remote |-> Some("192.0.2.9")],
    [xff |-> Some(<<"">>), xsource |-> Some("gateway"), remote |-> Some("192.0.2.9")] }

Request(m, k, b, h) == [method |-> m, key |-> k, body |-> b, headers |-> h]

\* the requests of Spec: every body with the right key, every header case on a message
\* that names no address and on one that names an address, and the rejected ones (wrong
\* method, absent or wrong key)
Requests ==
  { Request("POST", Some("secret"), b, NoHeaders) : b \in Bodies }
  \cup { Request("POST", Some("secret"), b, h) : b \in {AdminBody, FailedLoginBody},
                                                    h \in HeaderCases }
  \cup { Request("GET", Some("secret"), FailedLoginBody, NoHeaders),
         Request("POST", Null, FailedLoginBody, NoHeaders),
         Request("POST", Some("wrong"), FailedLoginBody, NoHeaders),
         Request("POST", Some(""), FailedLoginBody, NoHeaders),
         Request("POST", Null, ObjectBody(Str(<<"hello", "world">>), Undefined, Null), NoHeaders) }

\* the requests of SpecSeq: failed logins from 10.0.0.1 and from "unknown"
SeqRequests ==
  { Request("POST", Some("secret"), FailedLoginBody, NoHeaders),
    Request("POST", Some("secret"), AdminBody, NoHeaders) }

Envs == [apiKey : {Null, Some(""), Some("secret")}, webhook : BOOLEAN]

\* The store outlives the invocations. A deployment starts on an empty store, or on
\* the store two earlier failed logins from 10.0.0.1 have left within the current second.
PriorIncident(n) ==
  [incident_id |-> <<"inc", n>>, created_at |-> NowISO(Epoch), log_source |-> "10.0.0.1",
   findings |-> <<"failed-login">>, evidence_path |-> Null, attempts |-> Null]

Stores ==
  { [incidents |-> {}, counters |-> {}],
    [incidents |-> {PriorIncident(0 - 1), PriorIncident(0)},
     counters |-> {[counter_id |-> CounterId("10.0.0.1", Epoch), ip |-> "10.0.0.1",
                    window_start |-> WindowStart(Epoch), count |-> 2]}] }

\* ----------------------------------------------------------- specifications
InitWith(variants, envs, stores) ==
  /\ variant \in variants
  /\ env \in envs
  /\ variant = "plain" => env = [apiKey |-> Null, webhook |-> FALSE]
  /\ now = Epoch
  /\ ticks = 0
  /\ served = 0
  /\ proc = [p \in Procs |-> IdleProc]
  /\ \E s \in stores : incidents = s.incidents /\ counters = s.counters
  /\ variant = "plain" => counters = {}
  /\ blobs = {}
  /\ alerts = {}
  /\ calls = {}
  /\ faults = {}

Init == InitWith({"keyed", "plain"}, Envs, Stores)

\* Spec: one invocation at a time, any request, every outcome of every collaborator
\* call; the clock stands at Epoch (SpecSeq and SpecConc let it advance)
Next ==
  \/ \E r \in Requests : served < MaxRequests /\ Receive(1, r)
  \/ \E out \in Outcomes, url \in {"url", "none"} : UploadDone(1, out, url)
  \/ \E out \in {"ok", "none", "error", "throw"} : SignUrlDone(1, out)
  \/ \E out \in Outcomes : InsertDone(1, out)
  \/ \E out \in Outcomes : SelectDone(1, out)
  \/ \E out \in Outcomes : CtrInsertDone(1, out)
  \/ \E out \in Outcomes : CtrUpdateDone(1, out)
  \/ \E out \in Outcomes : BfInsertDone(1, out)
  \/ \E out \in {"ok", "throw"} : NotifyDone(1, out)

Spec == Init /\ [][Next]_vars

\* SpecSeq: the keyed handler on an empty store, failed logins handled one after
\* another; the table store may fail, the best-effort
\* collaborators (blob store, webhook) answer
InitSeq ==
  InitWith({"keyed"}, {[apiKey |-> Some("secret"), webhook |-> TRUE]},
           {[incidents |-> {}, counters |-> {}]})

NextSeq ==
  \/ \E r \in SeqRequests : served < MaxSeqRequests /\ Receive(1, r)
  \/ UploadDone(1, "ok", "url")
  \/ \E out \in Outcomes : InsertDone(1, out)
  \/ \E out \in Outcomes : SelectDone(1, out)
  \/ \E out \in Outcomes : CtrInsertDone(1, out)
  \/ \E out \in Outcomes : CtrUpdateDone(1, out)
  \/ \E out \in Outcomes : BfInsertDone(1, out)
  \/ NotifyDone(1, "ok")
  \/ Tick

SpecSeq == InitSeq /\ [][NextSeq]_vars


\* SpecConc: the keyed handler, two invocations running at once on failed logins from
\* 10.0.0.1. The store is empty, or holds what one earlier failed login from 10.0.0.1
\* has left within the current second (its updateCounter call is call 0). The table
\* store may fail at every call, the blob store answers, no webhook is configured,
\* and the clock passes into the next second once.
InitConc ==
  /\ variant = "keyed"
  /\ env = [apiKey |-> Some("secret"), webhook |-> FALSE]
  /\ now = Epoch
  /\ ticks = 0
  /\ served = 0
  /\ proc = [p \in Procs |-> IdleProc]
  /\ \/ incidents = {} /\ counters = {} /\ calls = {}
     \/ /\ incidents = {PriorIncident(0)}
        /\ counters = {[counter_id |-> CounterId("10.0.0.1", Epoch), ip |-> "10.0.0.1",
                        window_start |-> WindowStart(Epoch), count |-> 1]}
        /\ calls = {[no |-> 0, ip |-> "10.0.0.1", at |-> Epoch,
                     key |-> CounterId("10.0.0.1", Epoch)]}
  /\ blobs = {}
  /\ alerts = {}
  /\ faults = {}

NextConc ==
  \/ \E p \in Procs : served < MaxConcRequests
                         /\ Receive(p, Request("POST", Some("secret"), FailedLoginBody, NoHeaders))
  \/ \E p \in Procs : UploadDone(p, "ok", "url")
  \/ \E p \in Procs, out \in Outcomes : InsertDone(p, out)
  \/ \E p \in Procs, out \in Outcomes : SelectDone(p, out)
  \/ \E p \in Procs, out \in Outcomes : CtrInsertDone(p, out)
  \/ \E p \in Procs, out \in Outcomes : CtrUpdateDone(p, out)
  \/ \E p \in Procs, out \in Outcomes : BfInsertDone(p, out)
  \/ ticks = 0 /\ Tick

SpecConc == InitConc /\ [][NextConc]_vars


\* ------------------------------------------------------ vocabulary of the claims
Done(st) == st.pc = "done"
Status(st) == st.resp[1].status

\* the five-minute bucket of an instant
Bucket(t) == t \div WindowMs

\* the updateCounter calls started so far for the address and five-minute bucket of st's call
CallsInWindow(st) ==
  {c \in calls : c.ip = st.realIp /\ Bucket(c.at) = Bucket(st.calledAt[1])}

\* the brute-force rows this request has inserted
BfRowsOf(st) ==
  {i \in incidents : i.findings = <<"brute-force">> /\ i.incident_id = <<"bf", st.no>>}

\* the request passed the method check and, in the keyed handler, the key check
Accepted(st) ==
  /\ st.req # Null
  /\ st.req[1].method = "POST"
  /\ variant = "keyed" => (env.apiKey \notin {Null, Some("")} /\ st.req[1].key = env.apiKey)

\* the message text of the request matches no rule of the deployed handler
NoRuleMatches(st) ==
  IF variant = "keyed" THEN detectRules(Msg(st)) = <<>> ELSE detectRulesPlain(Msg(st)) = <<>>

\* a call of this request ended otherwise than "ok"
Failed(st, callNames) ==
  \E i \in 1..Len(st.trace) : st.trace[i].call \in callNames /\ st.trace[i].out \notin {"ok", "pending"}

TableCalls == {"insert-incident", "insert-bf", "select-counter", "insert-counter", "update-counter"}

\* the calls of this request to the named collaborator operation, as positions of its trace
CallsOf(st, name) == {i \in 1..Len(st.trace) : st.trace[i].call = name}

\* ------------------------------------------------------------------ claims
\* C1 (as claimed): sequential updateCounter calls for one address inside one
\* five-minute window, with no store failure, return 1, 2, ..., N, and the stored
\* count after the k-th call is k.
C1_SequentialCounts ==
  \A p \in Procs :
    (proc[p].count # Null /\ faults = {}) =>
      LET k == Cardinality(CallsInWindow(proc[p]))
          row == CounterRow(proc[p].counterId[1])
      IN proc[p].count[1] = k /\ row # Null /\ row[1].count = k

\* C2 (as claimed): of the failed logins of one address handled one after another
\* within one window, the 1st and the 2nd persist no brute-force incident and answer
\* bruteForce = false, the 3rd persists exactly one and answers bruteForce = true.
C2_ThirdFailedLoginTriggers ==
  \A p \in Procs :
    (Done(proc[p]) /\ proc[p].count # Null /\ faults = {}) =>
      LET k == Cardinality(CallsInWindow(proc[p])) IN
      /\ k \in {1, 2} =>
           (Status(proc[p]) = 201 /\ ~proc[p].resp[1].body.bruteForce /\ BfRowsOf(proc[p]) = {})
      /\ k = Threshold =>
           (Status(proc[p]) = 201 /\ proc[p].resp[1].body.bruteForce
              /\ Cardinality(BfRowsOf(proc[p])) = 1)

\* C3 (as claimed): two updateCounter calls for the same address use the same
\* counter key exactly when floor(t1 / windowWidth) = floor(t2 / windowWidth),
\* windowWidth being five minutes.
C3_KeyIsFiveMinuteBucket ==
  \A a \in calls : \A b \in calls :
    a.ip = b.ip => ((a.key = b.key) <=> (Bucket(a.at) = Bucket(b.at)))

\* C4: a request that is not a POST is answered 405, and in the keyed handler a POST
\* whose x-api-key is absent or differs from the configured key is answered 401; in
\* both cases the request makes no blob-store, table-store or notification call.
C4_RejectionsHaveNoSideEffects ==
  \A p \in Procs :
    Done(proc[p]) =>
      LET r == proc[p].req[1] IN
      /\ r.method # "POST" =>
           (Len(proc[p].resp) = 1 /\ Status(proc[p]) = 405 /\ proc[p].trace = <<>>)
      /\ (variant = "keyed" /\ r.method = "POST" /\ (r.key = Null \/ r.key # env.apiKey)) =>
           (Len(proc[p].resp) = 1 /\ Status(proc[p]) = 401 /\ proc[p].trace = <<>>)
      /\ (Len(proc[p].resp) = 1 /\ Status(proc[p]) \in {401, 405}) =>
           /\ \A i \in incidents : i.incident_id[2] # proc[p].no
           /\ \A b \in blobs : b[2] # proc[p].no
           /\ \A a \in alerts : a[1] # proc[p].no
           /\ \A c \in calls : c.no # proc[p].no

C4_Witness ==
  /\ variant = "keyed"
  /\ env.apiKey = Some("secret")
  /\ Done(proc[1])
  /\ proc[1].req[1] = Request("POST", Some("wrong"), FailedLoginBody, NoHeaders)
  /\ Status(proc[1]) = 401
  /\ incidents # {}

\* C5 (as claimed): an accepted request whose message text matches no rule is
\* answered 200 with an empty findings list and makes no persistence or
\* notification call.
C5_NoFindingsNoWork ==
  \A p \in Procs :
    (Done(proc[p]) /\ Accepted(proc[p]) /\ NoRuleMatches(proc[p])) =>
      /\ Len(proc[p].resp) = 1
      /\ Status(proc[p]) = 200
      /\ proc[p].resp[1].body.findings = <<>>
      /\ proc[p].trace = <<>>

\* C6 (as claimed, both handlers): a 201 response carries an incident that has been
\* inserted, and bruteForce is true in it exactly when the request has inserted a
\* brute-force incident.
ResponseIsPersisted(st) ==
  /\ st.resp[1].body.incident \in incidents
  /\ ("bruteForce" \in DOMAIN st.resp[1].body /\ st.resp[1].body.bruteForce)
       <=> (BfRowsOf(st) # {})

C6_Original ==
  \A p \in Procs :
    (Done(proc[p]) /\ Len(proc[p].resp) = 1 /\ Status(proc[p]) = 201) =>
      ResponseIsPersisted(proc[p])

\* C6 (amended): in the keyed handler a 201 response carries an incident that has
\* been inserted, and bruteForce is true in it exactly when the request has inserted
\* a brute-force incident.
C6_KeyedResponseIsPersisted ==
  \A p \in Procs :
    (variant = "keyed" /\ Done(proc[p]) /\ Len(proc[p].resp) = 1 /\ Status(proc[p]) = 201) =>
      ResponseIsPersisted(proc[p])

C6_Witness ==
  /\ variant = "keyed"
  /\ Done(proc[1])
  /\ Status(proc[1]) = 201
  /\ proc[1].resp[1].body.bruteForce
  /\ BfRowsOf(proc[1]) # {}
  /\ proc[1].resp[1].body.incident \in incidents


\* an exception reaches the handler's try block: no best-effort helper absorbs it
Thrown(st) ==
  IF variant = "keyed"
  THEN \/ Failed(st, {"insert-incident", "insert-bf"})
       \/ st.timestamp # Null /\ ~ValidDate(st.timestamp[1]) /\ st.pc \notin {"upload"}
  ELSE Accepted(st) /\ MessageOf(st.req[1].body).t # "string"

\* C7: an authorized request gets exactly one response, which is 200, 201 or 500;
\* an exception no best-effort helper absorbs gives 500 "internal_error"; no
\* exception leaves the handler.
C7_EveryExceptionIsConverted ==
  \A p \in Procs :
    /\ ~proc[p].escaped
    /\ ~Done(proc[p]) => proc[p].resp = <<>>
    /\ (Done(proc[p]) /\ Accepted(proc[p])) =>
         /\ Len(proc[p].resp) = 1
         /\ Status(proc[p]) \in {200, 201, 500}
         /\ Status(proc[p]) = 500 => proc[p].resp[1].body.error = "internal_error"
         /\ Thrown(proc[p]) => Status(proc[p]) = 500

C7_Witness ==
  /\ variant = "keyed"
  /\ Done(proc[1])
  /\ Accepted(proc[1])
  /\ \E i \in 1..Len(proc[1].trace) :
       proc[1].trace[i] = [call |-> "insert-incident", out |-> "throw"]
  /\ Status(proc[1]) = 500
  /\ proc[1].resp[1].body.error = "internal_error"

\* the request is past storeEvidence: its upload, and the URL call after it, have completed
PastEvidence(st) == st.trace # <<>> /\ st.pc \notin {"upload", "signUrl"}

\* the incident the handler builds for the request, whatever the blob store answered:
\* every field but evidence_path comes from the request and the clock
IncidentFor(st, evidencePath) ==
  [incident_id |-> <<"inc", st.no>>,
   created_at |-> IF variant = "keyed" THEN ToISOString(st.timestamp[1]) ELSE NowISO(now),
   log_source |-> st.realIp,
   findings |-> IF variant = "keyed"
                THEN [i \in 1..Len(st.findings) |-> st.findings[i].rule]
                ELSE st.findings,
   evidence_path |-> evidencePath,
   attempts |-> Null]

\* C8: for a request with findings, a failed blob store leaves evidencePath null, and
\* the incident is still built and its insert still made, with evidence_path = null and
\* every other field as after a successful upload; a failed notification is swallowed;
\* neither changes the response status (500 exactly when an exception reached the
\* handler, else 201) nor the rows written: the insert is made whenever the date is
\* valid, a request that ends without an exception has made it, and in the keyed
\* handler has its row in table incidents.
C8_BestEffortNeverFails ==
  \A p \in Procs :
    LET st == proc[p] IN
    st.findings # <<>> =>
      /\ Failed(st, {"upload", "sign-url"}) => st.evidencePath = Null
      /\ PastEvidence(st) =>
           (CallsOf(st, "insert-incident") # {}
              <=> (variant = "keyed" => ValidDate(st.timestamp[1])))
      /\ CallsOf(st, "insert-incident") # {} =>
           /\ st.incident = Some(IncidentFor(st, st.evidencePath))
           /\ (\E i \in CallsOf(st, "insert-incident") : st.trace[i].out = "ok")
                => st.incident[1] \in incidents
      /\ Done(st) =>
           /\ Len(st.resp) = 1
           /\ Status(st) = (IF Thrown(st) THEN 500 ELSE 201)
           /\ ~Thrown(st) =>
                /\ CallsOf(st, "insert-incident") # {}
                /\ variant = "keyed" => IncidentFor(st, st.evidencePath) \in incidents

\* the upload and the critical notification both failed; the request is answered 201 and
\* its incident is in the table with evidence_path null
C8_Witness ==
  /\ Done(proc[1])
  /\ Failed(proc[1], {"upload"})
  /\ Failed(proc[1], {"alert-critical"})
  /\ Status(proc[1]) = 201
  /\ CallsOf(proc[1], "insert-incident") # {}
  /\ IncidentFor(proc[1], Null) \in incidents

\* the body carries no timestamp, or one that is no valid date
TimestampAbsentOrInvalid(body) ==
  body.kind # "object" \/ body.timestamp = Null \/ ~ValidDate(body.timestamp[1])

\* C9 (as claimed): an authorized request with findings whose timestamp is absent
\* or invalid gets created_at = the current time and is recorded like any other: it
\* does not end in 500 (unless the table store fails).
C9_TimestampDefaults ==
  \A p \in Procs :
    LET st == proc[p] IN
    (Done(st) /\ Accepted(st) /\ ~NoRuleMatches(st) /\ TimestampAbsentOrInvalid(st.req[1].body)
       /\ MessageOf(st.req[1].body).t = "string" /\ ~Failed(st, TableCalls)) =>
      /\ Status(st) = 201
      /\ st.incident # Null
      /\ st.incident[1].created_at.iso >= Epoch
      /\ st.incident[1].created_at.iso <= now
      /\ st.incident[1] \in incidents

\* C10 (as claimed): N >= 3 failed logins of one address handled one after another
\* within one window persist exactly one brute-force incident in total.
C10_OneBruteForcePerCrossing ==
  \A p \in Procs :
    LET st == proc[p] IN
    (Done(st) /\ st.count # Null /\ faults = {} /\ Status(st) = 201
       /\ Cardinality(CallsInWindow(st)) >= Threshold) =>
      Cardinality({i \in incidents :
                     /\ i.findings = <<"brute-force">>
                     /\ i.log_source = st.realIp
                     /\ \E c \in CallsInWindow(st) : i.incident_id = <<"bf", c.no>>}) = 1

\* the message of the request matches a rule of severity "critical" (keyed handler)
MatchesCritical(st) ==
  /\ variant = "keyed"
  /\ LET matched == detectRules(Msg(st))
     IN \E i \in 1..Len(matched) : matched[i].severity = "critical"

\* C11: a request answered 201 has called the notifier with "Critical finding detected"
\* exactly once when a rule of severity critical matched its message and not at all
\* otherwise, whether or not it has also sent the brute-force notification.
C11_CriticalFindingsNotify ==
  \A p \in Procs :
    (Done(proc[p]) /\ Status(proc[p]) = 201) =>
      Cardinality(CallsOf(proc[p], "alert-critical")) = (IF MatchesCritical(proc[p]) THEN 1 ELSE 0)

\* a 201 whose request sent the brute-force notification and then the critical one
C11_Witness ==
  \E p \in Procs :
    /\ Done(proc[p]) /\ Status(proc[p]) = 201
    /\ CallsOf(proc[p], "alert-bf") # {}
    /\ Cardinality(CallsOf(proc[p], "alert-critical")) = 1
    /\ <<proc[p].no, "alert-bf">> \in alerts
    /\ <<proc[p].no, "alert-critical">> \in alerts

\* the rule identifiers the deployed handler's rules match on the message of the request
MatchedRules(st) ==
  IF variant = "keyed"
  THEN LET matched == detectRules(Msg(st))
       IN [i \in 1..Len(matched) |-> matched[i].rule]
  ELSE detectRulesPlain(Msg(st))

\* the invocation that inserted this row, if it is still in memory
Inserted(st, row) == st.no = row.incident_id[2] /\ st.req # Null

\* C12: every row of table incidents has at least one finding; a row inserted by the
\* brute-force path has exactly the finding "brute-force", and every other row has
\* exactly the identifiers of the rules its request's message matches.
C12_FindingsInvariant ==
  \A row \in incidents :
    /\ row.findings # <<>>
    /\ row.incident_id[1] = "bf" => row.findings = <<"brute-force">>
    /\ \A p \in Procs :
         (row.incident_id[1] = "inc" /\ Inserted(proc[p], row)) =>
           row.findings = MatchedRules(proc[p])

\* a request has inserted both its own row, with two matched rules, and a brute-force row
C12_Witness ==
  \E p \in Procs : \E row, bf \in incidents :
    /\ row.incident_id = <<"inc", proc[p].no>> /\ Inserted(proc[p], row)
    /\ Len(row.findings) = 2
    /\ bf.incident_id = <<"bf", proc[p].no>>
    /\ bf.findings = <<"brute-force">>

\* the source of a request by the order of precedence, a header counting as present
\* when the request carries it: the address in the message text, the first forwarded-for
\* entry, the x-source header, the remote address, "unknown"
SourceByPrecedence(st) ==
  LET h == st.req[1].headers
      inText == {i \in 1..Len(Msg(st)) : Msg(st)[i] \in IpWords}
  IN IF inText # {} THEN Msg(st)[CHOOSE i \in inText : \A j \in inText : i <= j]
     ELSE IF h.xff # Null THEN h.xff[1][1]
     ELSE IF h.xsource # Null THEN h.xsource[1]
     ELSE IF h.remote # Null THEN h.remote[1]
     ELSE "unknown"

\* the same order, a header counting only when its value (for forwarded-for, its first
\* entry) is not the empty string
SourceByNonEmpty(st) ==
  LET h == st.req[1].headers
      inText == {i \in 1..Len(Msg(st)) : Msg(st)[i] \in IpWords}
  IN IF inText # {} THEN Msg(st)[CHOOSE i \in inText : \A j \in inText : i <= j]
     ELSE IF h.xff # Null /\ h.xff[1][1] # "" THEN h.xff[1][1]
     ELSE IF h.xsource # Null /\ h.xsource[1] # "" THEN h.xsource[1]
     ELSE IF h.remote # Null /\ h.remote[1] # "" THEN h.remote[1]
     ELSE "unknown"

\* the incident the request has built, and the updateCounter call it has made, carry `src`
SourceIs(st, src) ==
  /\ st.incident # Null => st.incident[1].log_source = src
  /\ \A row \in incidents :
       (row.incident_id[2] = st.no /\ st.req # Null) => row.log_source = src
  /\ \A c \in calls : c.no = st.no => c.ip = src

\* C13 (as claimed): in either handler the log_source of a request's incident, and the
\* source given to updateCounter, follow the order of precedence.
C13_Original ==
  \A p \in Procs : proc[p].req # Null => SourceIs(proc[p], SourceByPrecedence(proc[p]))

\* C13: in the keyed handler the log_source of a request's incident and of its
\* brute-force row, and the source given to updateCounter, follow the order of
\* precedence, a header with an empty value (an empty first forwarded-for entry) counting
\* as absent; the plain handler fills log_source with the x-source header if it is not
\* empty, else with "vercel".
C13_KeyedSourcePrecedence ==
  \A p \in Procs :
    proc[p].req # Null =>
      IF variant = "keyed"
      THEN SourceIs(proc[p], SourceByNonEmpty(proc[p]))
      ELSE LET h == proc[p].req[1].headers
           IN SourceIs(proc[p], IF h.xsource # Null /\ h.xsource[1] # ""
                                THEN h.xsource[1] ELSE "vercel")

\* the keyed handler has stored an incident and called updateCounter for a request whose
\* message names an address and which carries all three source headers: the address of
\* the message wins
C13_Witness ==
  \E p \in Procs :
    /\ variant = "keyed"
    /\ proc[p].req # Null
    /\ extractIp(Msg(proc[p])) = Some("10.0.0.1")
    /\ proc[p].req[1].headers.xff # Null
    /\ proc[p].req[1].headers.xsource = Some("gateway")
    /\ proc[p].req[1].headers.remote # Null
    /\ \E row \in incidents : row.incident_id = <<"inc", proc[p].no>> /\ row.log_source = "10.0.0.1"
    /\ \E c \in calls : c.no = proc[p].no /\ c.ip = "10.0.0.1"

\* the same for a message that names no address, with an empty x-source header and a
\* remote address: the empty header is passed over
C13_WitnessEmptySource ==
  \E p \in Procs :
    /\ variant = "keyed"
    /\ proc[p].req # Null
    /\ extractIp(Msg(proc[p])) = Null
    /\ proc[p].req[1].headers.xff = Null
    /\ proc[p].req[1].headers.xsource = Some("")
    /\ proc[p].req[1].headers.remote = Some("192.0.2.9")
    /\ \E row \in incidents : row.incident_id = <<"inc", proc[p].no>> /\ row.log_source = "192.0.2.9"
    /\ \E c \in calls : c.no = proc[p].no /\ c.ip = "192.0.2.9"

\* the same with the x-source header and the remote address only: the header wins
C13_WitnessSourceHeader ==
  \E p \in Procs :
    /\ variant = "keyed"
    /\ proc[p].req # Null
    /\ extractIp(Msg(proc[p])) = Null
    /\ proc[p].req[1].headers.xff = Null
    /\ proc[p].req[1].headers.xsource = Some("gateway")
    /\ proc[p].req[1].headers.remote # Null
    /\ \E row \in incidents : row.incident_id = <<"inc", proc[p].no>> /\ row.log_source = "gateway"
    /\ \E c \in calls : c.no = proc[p].no /\ c.ip = "gateway"

\* the place of a collaborator call in the order of one request
Stage(call) ==
  CASE call = "upload" -> 1
    [] call = "sign-url" -> 2
    [] call = "insert-incident" -> 3
    [] call = "select-counter" -> 4
    [] call \in {"insert-counter", "update-counter"} -> 5
    [] call = "insert-bf" -> 6
    [] call = "alert-bf" -> 7
    [] call = "alert-critical" -> 8

\* the request has a call named in `names` that completed "ok" before position i
OkBefore(tr, i, names) == \E j \in 1..(i - 1) : tr[j].call \in names /\ tr[j].out = "ok"

\* C16: within one request every collaborator call has completed before the next one
\* starts, in the order upload, incident insert, counter read, counter write, brute-force
\* insert, notifications; the counter is touched and notifications are sent only after the
\* incident insert succeeded, the brute-force notification only after the brute-force
\* insert; and whether the incident insert is made does not depend on the upload's outcome.
C16_StrictOrdering ==
  \A p \in Procs :
    LET st == proc[p]
        tr == st.trace
    IN /\ \A i \in 1..(Len(tr) - 1) :
            tr[i].out # "pending" /\ Stage(tr[i].call) < Stage(tr[i + 1].call)
       /\ \A i \in 1..Len(tr) :
            /\ Stage(tr[i].call) > 1 => tr[1].call = "upload"
            /\ tr[i].call \in {"select-counter", "insert-counter", "update-counter", "insert-bf"}
                 => OkBefore(tr, i, {"insert-incident"})
            /\ tr[i].call \in {"alert-bf", "alert-critical"} =>
                 /\ OkBefore(tr, i, {"insert-incident"})
                 /\ \A j \in 1..(i - 1) : tr[j].call \in TableCalls => tr[j].out # "pending"
            /\ tr[i].call = "alert-bf" => OkBefore(tr, i, {"insert-bf"})
       /\ (tr # <<>> /\ st.pc \notin {"upload", "signUrl"}) =>
            (CallsOf(st, "insert-incident") # {}
               <=> (variant = "keyed" => ValidDate(st.timestamp[1])))

\* a request whose upload failed went on through the incident insert, the counter read and
\* write, the brute-force insert and both notifications, each completed before the next
C16_Witness ==
  \E p \in Procs :
    /\ Done(proc[p]) /\ Status(proc[p]) = 201
    /\ [i \in 1..Len(proc[p].trace) |-> proc[p].trace[i].call] =
         <<"upload", "insert-incident", "select-counter", "update-counter", "insert-bf",
           "alert-bf", "alert-critical">>
    /\ proc[p].trace[1].out = "error"
    /\ \A i \in 2..7 : proc[p].trace[i].out = "ok"

\* C19: in the keyed handler, when the insert of a request's own incident fails, the
\* request is answered 500 and has made no call after that insert: no counter row is read
\* or written for it, no brute-force incident is built or stored, no notification is sent,
\* and no row of table incidents belongs to it.
C19_RecorderFailureStops ==
  \A p \in Procs :
    (variant = "keyed" /\ Failed(proc[p], {"insert-incident"})) =>
      /\ Done(proc[p]) /\ Status(proc[p]) = 500
      /\ [i \in 1..Len(proc[p].trace) |-> proc[p].trace[i].call] = <<"upload", "insert-incident">>
      /\ proc[p].count = Null /\ proc[p].counterId = Null /\ proc[p].bfIncident = Null
      /\ ~proc[p].bruteForce
      /\ \A c \in calls : c.no # proc[p].no
      /\ \A row \in incidents : row.incident_id[2] # proc[p].no
      /\ \A a \in alerts : a[1] # proc[p].no

\* a failed login with a critical finding from the address whose counter stands at 2:
\* its evidence was stored, its incident insert failed
C19_Witness ==
  \E p \in Procs :
    /\ variant = "keyed" /\ Failed(proc[p], {"insert-incident"})
    /\ Done(proc[p])
    /\ FAILED_LOGIN_RE(Msg(proc[p])) /\ MatchesCritical(proc[p])
    /\ \E c \in counters : c.ip = proc[p].realIp /\ c.count = 2
    /\ <<"inc", proc[p].no>> \in blobs

CounterCalls == {"select-counter", "insert-counter", "update-counter"}

\* C17 (as claimed): when a select, insert or update of table counters fails inside
\* updateCounter and the incident inserts succeed, the request is answered 201 with its
\* incident stored, and the value updateCounter returned is null or the count stored
\* under its key after the call.
C17_CounterFailuresNonFatal ==
  \A p \in Procs :
    LET st == proc[p] IN
    (variant = "keyed" /\ Done(st) /\ Failed(st, CounterCalls)
       /\ ~Failed(st, {"insert-incident", "insert-bf"})) =>
      /\ Status(st) = 201
      /\ st.incident[1] \in incidents
      /\ st.count = Null
           \/ (CounterRow(st.counterId[1]) # Null
                 /\ CounterRow(st.counterId[1])[1].count = st.count[1])

\* the updateCounter calls started so far under a counter key
CallsUnder(key) == {c \in calls : c.key = key}

\* C14: the lost update happens. Whenever two invocations have got the same value from
\* updateCounter for the same counter key, an increment has been lost: the count stored
\* under the key is less than the number of updateCounter calls made for it.
C14_LostUpdate ==
  \A p, q \in Procs :
    (/\ p # q
     /\ proc[p].count # Null /\ proc[q].count = proc[p].count
     /\ proc[p].counterId # Null /\ proc[q].counterId = proc[p].counterId) =>
       \/ CounterRow(proc[p].counterId[1]) = Null
       \/ CounterRow(proc[p].counterId[1])[1].count < Cardinality(CallsUnder(proc[p].counterId[1]))

\* two invocations running at once have both read count 1 under one key, both written 2
\* without a store failure and both got 2 back; three calls have completed for the key
\* and the stored count is 2
C14_Witness ==
  /\ faults = {}
  /\ \A p \in Procs :
       /\ Done(proc[p])
       /\ proc[p].counterId = proc[1].counterId
       /\ proc[p].newCount = Some(2) /\ proc[p].count = Some(2)
       /\ proc[p].trace[3] = [call |-> "select-counter", out |-> "ok"]
       /\ proc[p].trace[4] = [call |-> "update-counter", out |-> "ok"]
  /\ CounterRow(proc[1].counterId[1]) # Null
  /\ CounterRow(proc[1].counterId[1])[1].count = 2
  /\ Cardinality(CallsUnder(proc[1].counterId[1])) = 3

\* two invocations running at once have both found no row under one key and both got 1
\* back, the second insert being refused; the stored count is 1 after two calls
C14_WitnessInsert ==
  /\ \A p \in Procs :
       /\ Done(proc[p])
       /\ proc[p].counterId = proc[1].counterId
       /\ proc[p].count = Some(1)
       /\ proc[p].trace[3] = [call |-> "select-counter", out |-> "ok"]
       /\ proc[p].trace[4].call = "insert-counter"
  /\ CounterRow(proc[1].counterId[1]) # Null
  /\ CounterRow(proc[1].counterId[1])[1].count = 1
  /\ Cardinality(CallsUnder(proc[1].counterId[1])) = 2

\* C15 (as claimed): whatever the interleaving of updateCounter calls, no step lowers the
\* count stored under a counter key.
C15_NeverDecremented ==
  [][\A c \in counters : \A d \in counters' :
       d.counter_id = c.counter_id => d.count >= c.count]_vars

\* C18: a brute-force incident is stored only for a request whose counter key has had at
\* least three updateCounter calls started, its attempts do not exceed the number of those
\* calls, and no value returned by updateCounter exceeds the number of calls started for
\* its key.
C18_NoFalsePositive ==
  /\ \A row \in incidents :
       row.findings = <<"brute-force">> =>
         \E c \in calls :
           /\ c.no = row.incident_id[2] /\ c.ip = row.log_source
           /\ Cardinality(CallsUnder(c.key)) >= Threshold
           /\ row.attempts[1] <= Cardinality(CallsUnder(c.key))
  /\ \A p \in Procs :
       proc[p].count # Null => proc[p].count[1] <= Cardinality(CallsUnder(proc[p].counterId[1]))

\* a brute-force incident stored while another invocation is inside updateCounter for the
\* same key, and after a call of table counters has failed
C18_Witness ==
  \E p, q \in Procs : \E row \in incidents :
    /\ p # q /\ faults # {}
    /\ row.incident_id = <<"bf", proc[p].no>> /\ row.findings = <<"brute-force">>
    /\ row.attempts = Some(Threshold)
    /\ proc[q].pc \in {"select", "ctrInsert", "ctrUpdate"}
    /\ proc[q].counterId = proc[p].counterId
====
